---- MODULE Spec2Model ----
(***************************************************************************)
(* Voice lifecycle of the angel-synth engine: the shared parameter/note   *)
(* model (SynthShared), its snapshot, and the voice pool of SynthEngine   *)
(* with the per-voice ADSR envelope.                                       *)
(*                                                                         *)
(* f32 values are modelled as a small binary floating-point format: unit   *)
(* 1/One, a three-bit significand, round to nearest even, overflow to      *)
(* +/-infinity beyond FMax and IEEE NaN propagation.  Times are in         *)
(* seconds at a sample rate of 1.0 Hz, so attack_seconds * sample_rate is  *)
(* the attack length in samples.                                           *)
(***************************************************************************)
EXTENDS Integers, Sequences, FiniteSets, TLC

\* Program state: the shared model, the audio thread's snapshot, the voice pool.
\* History (no program state): tail, hist, taken.
VARIABLES shared, snapshot, voices, tail, hist, taken

\* One voice followed from its construction to its removal: the voice, the
\* parameters of its last sample, and (history) its attack ramp.
VARIABLES voice, vparams, ramp

voicevars == <<voice, vparams, ramp>>

\* The visualization ring buffer, and (history) every sample recorded so far.
VARIABLES scope, recorded

scopevars == <<scope, recorded>>

\* A rendering call of the audio thread: pc = its position in
\* write_samples_f32, frames = the buffer length in frames, frame = the loop
\* index i; lock = the holder of the model mutex, poisoned = its poison flag.
\* History: acquired = model-lock acquisitions of the current call, snap_at =
\* the loop index at which the call last took its snapshot, since[n] = frames
\* rendered since note n was last pressed or released.
VARIABLES pc, frames, frame, lock, poisoned, acquired, snap_at, since, eq_from

rendervars == <<pc, frames, frame, lock, poisoned, acquired, snap_at, since, eq_from>>

\* The EQ chain of the engine and the EQ settings it was last updated from.
\* History: io = the last input and output of the chain and the settings in
\* force then, flat = every update_eq so far set all three gains to 0 dB,
\* unit = every coefficient set so far had b0 = 1.0, fed = samples processed.
VARIABLES eq, eqset, io, flat, unit, fed

eqvars == <<eq, eqset, io, flat, unit, fed>>

\* The mutex around the visualization buffer: slock = its holder, spoisoned =
\* its poison flag.  History: srec = what the last record_scope did.
VARIABLES slock, spoisoned, srec

lockvars == <<slock, spoisoned, srec>>

\* The keyboard: octave_offset is SynthApp's field.  Environment and history:
\* down[k] = NoNote while key k is up, else the note its key-down added to
\* the held set (ArrowShift for an arrow key that shifted the octave).
VARIABLES octave_offset, down

keyvars == <<octave_offset, down>>

\* The settings: settings = SynthApp's AppSettings, file = the lines of the
\* settings file (empty before the first save), loaded = what AppSettings::load
\* made of the file.
VARIABLES settings, file, loaded

setvars == <<settings, file, loaded>>

\* History of note 0 against the snapshot refreshes: watch = how far a
\* press/release pair between two refreshes has got ("b1".."b4": the note was
\* not held and had no voice at the last refresh; it was then pressed; then
\* released; then a further refresh came.  "s1".."s4": the note was held and
\* its voice gated at the last refresh; it was then released; then pressed
\* again; then a further refresh came), blipped = a frame was rendered at "b4".
VARIABLES watch, blipped

watchvars == <<watch, blipped>>

appvars == <<lockvars, keyvars, setvars, watchvars>>

others == <<voicevars, scopevars, rendervars, eqvars, appvars>>

engvars == <<shared, snapshot, voices, tail, hist, taken>>

vars == <<shared, snapshot, voices, tail, hist, taken, others>>

(* ---------------------------------------------------------------------- *)
(* Bounds                                                                  *)
(* ---------------------------------------------------------------------- *)
MaxNote == 1
MaxTail == 5
MaxHist == 3
MaxRamp == 4
MaxCap == 3
MaxBlock == 2
MaxRecorded == 5
MaxFrames == 5
MaxFed == 2

Notes == 0..MaxNote

\* keys of the keyboard, by their index in egui::Key::ALL
MaxKey == 3
Keys == 0..MaxKey
ArrowLeft == 1
ArrowRight == 2
NoteKeys == Keys \ {ArrowLeft, ArrowRight}

LOWEST_NOTE == 36
HIGHEST_NOTE == 84
NoNote == 0 - 1
ArrowShift == 0 - 2

(* ---------------------------------------------------------------------- *)
(* f32 arithmetic                                                          *)
(* ---------------------------------------------------------------------- *)
One == 32
FMax == 4 * One
PosInf == FMax + 1
NegInf == 0 - PosInf
NaN == FMax + 2

Abs(x) == IF x < 0 THEN 0 - x ELSE x

\* the spacing of the representable values around a: a three-bit significand
\* (four values per binade), down to the unit 1/One
Ulp(a) ==
    IF a < One \div 4 THEN 1
    ELSE IF a < One \div 2 THEN 2
    ELSE IF a < One THEN 4
    ELSE IF a < 2 * One THEN 8
    ELSE 16

\* round to nearest representable value, ties to even; overflow to infinity
Rnd(x) ==
    LET u == Ulp(Abs(x))
        q == Abs(x) \div u
        r == Abs(x) % u
        m == IF 2 * r < u THEN q * u
             ELSE IF 2 * r > u THEN (q + 1) * u
             ELSE IF q % 2 = 0 THEN q * u ELSE (q + 1) * u
    IN IF m > FMax THEN (IF x > 0 THEN PosInf ELSE NegInf)
       ELSE IF x < 0 THEN 0 - m ELSE m

FNeg(a) == IF a = NaN THEN NaN ELSE 0 - a

FAdd(a, b) ==
    IF a = NaN \/ b = NaN THEN NaN
    ELSE IF a = PosInf THEN (IF b = NegInf THEN NaN ELSE PosInf)
    ELSE IF a = NegInf THEN (IF b = PosInf THEN NaN ELSE NegInf)
    ELSE IF b = PosInf \/ b = NegInf THEN b
    ELSE Rnd(a + b)

FSub(a, b) == FAdd(a, FNeg(b))

FMul(a, b) ==
    IF a = NaN \/ b = NaN THEN NaN
    ELSE IF a = PosInf \/ a = NegInf \/ b = PosInf \/ b = NegInf
         THEN (IF a = 0 \/ b = 0 THEN NaN
               ELSE IF (a > 0) = (b > 0) THEN PosInf ELSE NegInf)
    ELSE IF (a < 0) = (b < 0) THEN Rnd((Abs(a) * Abs(b)) \div One)
    ELSE 0 - Rnd((Abs(a) * Abs(b)) \div One)

FDiv(a, b) ==
    IF a = NaN \/ b = NaN THEN NaN
    ELSE IF b = PosInf \/ b = NegInf
         THEN (IF a = PosInf \/ a = NegInf THEN NaN ELSE 0)
    ELSE IF b = 0
         THEN (IF a = 0 THEN NaN ELSE IF a > 0 THEN PosInf ELSE NegInf)
    ELSE IF a = PosInf \/ a = NegInf
         THEN (IF (a > 0) = (b > 0) THEN PosInf ELSE NegInf)
    ELSE IF (a < 0) = (b < 0) THEN Rnd((Abs(a) * One) \div Abs(b))
    ELSE 0 - Rnd((Abs(a) * One) \div Abs(b))

FLe(a, b) == a # NaN /\ b # NaN /\ a <= b
FGe(a, b) == a # NaN /\ b # NaN /\ a >= b
FLt(a, b) == a # NaN /\ b # NaN /\ a < b
FGt(a, b) == a # NaN /\ b # NaN /\ a > b

FClamp(x, lo, hi) ==
    IF FLt(x, lo) THEN lo ELSE IF FGt(x, hi) THEN hi ELSE x

\* The values of the format, and the operations tabulated over them
F32 == NegInf..NaN

AddT == [a \in F32 |-> [b \in F32 |-> FAdd(a, b)]]
MulT == [a \in F32 |-> [b \in F32 |-> FMul(a, b)]]
DivT == [a \in F32 |-> [b \in F32 |-> FDiv(a, b)]]

Add(a, b) == AddT[a][b]
Sub(a, b) == AddT[a][FNeg(b)]
Mul(a, b) == MulT[a][b]
Div(a, b) == DivT[a][b]

SampleRate == One

(* ---------------------------------------------------------------------- *)
(* SynthParams                                                             *)
(* ---------------------------------------------------------------------- *)
MkParams(a, d, s, r) ==
    [attack_seconds |-> a, decay_seconds |-> d,
     sustain_level |-> s, release_seconds |-> r]

StartParams == MkParams(2 * One, 2 * One, One \div 2, 4 * One)

\* zero, negative and near-zero times (1 is the smallest positive value: its
\* reciprocal overflows), sustain levels below 0, at 0, at 1 and above 1
ZeroTimes == MkParams(0, 0, One + (One \div 2), 0)
NegativeTimes == MkParams(0 - One, 0 - One, 0, 0 - One)
TinyTimes == MkParams(1, 1, One, 1)
SlowTimes == MkParams(4 * One, 4 * One, 0 - (One \div 2), 2 * One)

\* eq_from before the first update_eq: EqChain::new, no parameters applied
NoParams == MkParams(0, 0, 0, 0)

ParamChoices == {StartParams, ZeroTimes, NegativeTimes, TinyTimes, SlowTimes}

\* the parameter values written while release tails are measured
TailParams == {StartParams, ZeroTimes, TinyTimes}

(* ---------------------------------------------------------------------- *)
(* BTreeSet<u8>: an ascending sequence of distinct keys                    *)
(* ---------------------------------------------------------------------- *)
Contains(seq, x) == \E i \in 1..Len(seq) : seq[i] = x

\* faulty variant: Vec::push instead of a set insert
vec_push(seq, x) == Append(seq, x)

RECURSIVE btree_insert(_, _)
btree_insert(seq, x) ==
    IF seq = <<>> THEN <<x>>
    ELSE IF Head(seq) = x THEN seq
    ELSE IF Head(seq) > x THEN <<x>> \o seq
    ELSE <<Head(seq)>> \o btree_insert(Tail(seq), x)

btree_remove(seq, x) == SelectSeq(seq, LAMBDA y : y # x)

(* ---------------------------------------------------------------------- *)
(* SynthShared                                                             *)
(* ---------------------------------------------------------------------- *)
new_with_params(params) == [params |-> params, pressed_notes |-> <<>>]

press_note(s, note) ==
    [s EXCEPT !.pressed_notes = btree_insert(s.pressed_notes, note)]

\* faulty variant: the note is removed from a copy of the set
release_note_copy(s, note) == s

\* faulty variant: release toggles the note
release_note_toggle(s, note) ==
    IF Contains(s.pressed_notes, note)
    THEN [s EXCEPT !.pressed_notes = btree_remove(s.pressed_notes, note)]
    ELSE [s EXCEPT !.pressed_notes = btree_insert(s.pressed_notes, note)]

release_note(s, note) ==
    [s EXCEPT !.pressed_notes = btree_remove(s.pressed_notes, note)]

is_pressed(s, note) == Contains(s.pressed_notes, note)

SynthShared_snapshot(s) ==
    [params |-> s.params,
     pressed_notes |-> [i \in 1..Len(s.pressed_notes) |-> s.pressed_notes[i]]]

(* ---------------------------------------------------------------------- *)
(* VoiceState (lifecycle fields: note, env_level, stage, gate)             *)
(* ---------------------------------------------------------------------- *)
EnvStage == {"Idle", "Attack", "Decay", "Sustain", "Release"}

\* faulty variant: a voice constructed with its gate already on
VoiceState_new_gated(note) ==
    [note |-> note, env_level |-> 0, stage |-> "Idle", gate |-> TRUE]

VoiceState_new(note) ==
    [note |-> note, env_level |-> 0, stage |-> "Idle", gate |-> FALSE]

\* faulty variant: gate-off silences the voice at once
set_gate_cut(v, gate) ==
    LET stage == IF gate /\ ~v.gate THEN "Attack"
                 ELSE IF ~gate /\ v.gate THEN "Idle"
                 ELSE v.stage
    IN [v EXCEPT !.stage = stage, !.gate = gate]

\* faulty variant: every gate-on restarts the attack
set_gate_retrigger(v, gate) ==
    LET stage == IF gate THEN "Attack"
                 ELSE IF ~gate /\ v.gate /\ v.stage # "Idle" THEN "Release"
                 ELSE v.stage
    IN [v EXCEPT !.stage = stage, !.gate = gate]

\* faulty variant: a gate-off leaves the stage as it is
set_gate_stage_kept(v, gate) ==
    LET stage == IF gate /\ ~v.gate THEN "Attack" ELSE v.stage
    IN [v EXCEPT !.stage = stage, !.gate = gate]

\* faulty variant: a gate-on restarts the envelope from zero
set_gate_restart(v, gate) ==
    LET stage == IF gate /\ ~v.gate THEN "Attack"
                 ELSE IF ~gate /\ v.gate /\ v.stage # "Idle" THEN "Release"
                 ELSE v.stage
    IN [v EXCEPT !.stage = stage, !.gate = gate,
                 !.env_level = IF gate /\ ~v.gate THEN 0 ELSE @]

set_gate(v, gate) ==
    LET stage == IF gate /\ ~v.gate THEN "Attack"
                 ELSE IF ~gate /\ v.gate /\ v.stage # "Idle" THEN "Release"
                 ELSE v.stage
    IN [v EXCEPT !.stage = stage, !.gate = gate]

\* if seconds <= 0.0 { 1.0 } else { 1.0 / (seconds * sample_rate) }
env_step(seconds, sample_rate) ==
    IF FLe(seconds, 0) THEN One
    ELSE Div(One, Mul(seconds, sample_rate))

\* faulty variant: the attack rate taken from the release time
attack_step_from_release(params, sample_rate) == env_step(params.release_seconds, sample_rate)

attack_step(params, sample_rate) == env_step(params.attack_seconds, sample_rate)

decay_step(params, sample_rate) == env_step(params.decay_seconds, sample_rate)

\* faulty variant: the release rate taken from the decay time
release_step_from_decay(params, sample_rate) == env_step(params.decay_seconds, sample_rate)

release_step(params, sample_rate) == env_step(params.release_seconds, sample_rate)

sustain_target(params) == FClamp(params.sustain_level, 0, One)

advance_envelope(v, params, sample_rate) ==
    CASE v.stage = "Idle" -> [v EXCEPT !.env_level = 0]
      [] v.stage = "Attack" ->
            LET lvl == Add(v.env_level, attack_step(params, sample_rate))
            IN IF FGe(lvl, One)
               THEN [v EXCEPT !.env_level = One, !.stage = "Decay"]
               ELSE [v EXCEPT !.env_level = lvl]
      [] v.stage = "Decay" ->
            LET target == sustain_target(params)
                lvl == Sub(v.env_level,
                            Mul(decay_step(params, sample_rate), Sub(One, target)))
            IN IF FLe(lvl, target)
               THEN [v EXCEPT !.env_level = target, !.stage = "Sustain"]
               ELSE [v EXCEPT !.env_level = lvl]
      [] v.stage = "Sustain" ->
            [v EXCEPT !.env_level = sustain_target(params)]
      [] v.stage = "Release" ->
            LET lvl == Sub(v.env_level, release_step(params, sample_rate))
            IN IF FLe(lvl, 0)
               THEN [v EXCEPT !.env_level = 0, !.stage = "Idle"]
               ELSE [v EXCEPT !.env_level = lvl]

\* VoiceState::next_sample: the envelope advance is its only effect on the
\* lifecycle fields; the oscillator, noise and filter fields feed the output.
voice_next_sample(v, params, sample_rate) ==
    advance_envelope(v, params, sample_rate)

\* faulty variant: finished as soon as the gate is off
is_finished_gate_off(v) == ~v.gate

is_finished(v) == v.stage = "Idle" /\ ~v.gate

(* ---------------------------------------------------------------------- *)
(* SynthEngine                                                             *)
(* ---------------------------------------------------------------------- *)
HasVoice(vs, note) == \E i \in 1..Len(vs) : vs[i].note = note

VoiceOf(vs, note) == vs[CHOOSE i \in 1..Len(vs) : vs[i].note = note]

\* faulty variant: the second loop without its "no voice yet" test
RECURSIVE push_always(_, _)
push_always(vs, pressed) ==
    IF pressed = <<>> THEN vs
    ELSE push_always(Append(vs, set_gate(VoiceState_new(Head(pressed)), TRUE)),
                     Tail(pressed))

\* second loop of sync_voices: push a gated-on voice for each held note
\* that has none
RECURSIVE push_missing(_, _)
push_missing(vs, pressed) ==
    IF pressed = <<>> THEN vs
    ELSE IF ~HasVoice(vs, Head(pressed))
         THEN push_missing(Append(vs, set_gate(VoiceState_new(Head(pressed)), TRUE)),
                           Tail(pressed))
         ELSE push_missing(vs, Tail(pressed))

\* faulty variant: the gates of the existing voices are only ever set on
sync_voices_gate_on_only(vs, pressed) ==
    push_missing([i \in 1..Len(vs) |->
                     IF Contains(pressed, vs[i].note) THEN set_gate(vs[i], TRUE) ELSE vs[i]],
                 pressed)

sync_voices(vs, pressed) ==
    push_missing([i \in 1..Len(vs) |-> set_gate(vs[i], Contains(pressed, vs[i].note))],
                 pressed)

mix_voices(vs, params, sample_rate) ==
    [i \in 1..Len(vs) |-> voice_next_sample(vs[i], params, sample_rate)]

retain_voices(vs) == SelectSeq(vs, LAMBDA v : ~is_finished(v))

engine_next_sample(vs, snap, sample_rate) ==
    retain_voices(mix_voices(sync_voices(vs, snap.pressed_notes), snap.params, sample_rate))

(* ---------------------------------------------------------------------- *)
(* EqChain: three biquads (low shelf, mid peak, high shelf)                *)
(* Frequencies are in twentieths of the sample rate (0 stands for 10 Hz    *)
(* and below, 10 for the Nyquist frequency); gains are in dB.              *)
(* ---------------------------------------------------------------------- *)
\* a decimal constant or libm result given in thousandths, as an f32
Milli(m) ==
    IF m < 0 THEN 0 - Rnd(((0 - m) * One + 500) \div 1000)
    ELSE Rnd((m * One + 500) \div 1000)

EPSILON == Ulp(One)
SQRT_2 == Milli(1414)

\* freq.clamp(10.0, sample_rate * 0.45)
clamp_freq(freq) == IF freq < 0 THEN 0 ELSE IF freq > 9 THEN 9 ELSE freq

\* (TAU * freq / sample_rate).cos() and .sin() for the clamped frequencies
cos_w0(freq) ==
    Milli(<<1000, 951, 809, 588, 309, 0, 0 - 309, 0 - 588, 0 - 809, 0 - 951>>[freq + 1])

sin_w0(freq) ==
    Milli(<<1, 309, 588, 809, 951, 1000, 951, 809, 588, 309>>[freq + 1])

\* 10_f32.powf(gain_db / 40.0)
powf_gain(gain_db) ==
    CASE gain_db = 0 - 12 -> Milli(501)
      [] gain_db = 0 -> One
      [] gain_db = 12 -> Milli(1995)

\* a.sqrt() for the linear gains above
sqrt_gain(a) ==
    CASE a = Milli(501) -> Milli(708)
      [] a = One -> One
      [] a = Milli(1995) -> Milli(1412)

identity == [b0 |-> One, b1 |-> 0, b2 |-> 0, a1 |-> 0, a2 |-> 0]

\* faulty variant: the numerator is left unnormalized
from_raw_numerator_raw(b0, b1, b2, a0, a1, a2) ==
    LET inv_a0 == IF FLt(Abs(a0), EPSILON) THEN One ELSE Div(One, a0)
    IN [b0 |-> Mul(b0, inv_a0), b1 |-> b1, b2 |-> b2,
        a1 |-> Mul(a1, inv_a0), a2 |-> Mul(a2, inv_a0)]

from_raw(b0, b1, b2, a0, a1, a2) ==
    LET inv_a0 == IF FLt(Abs(a0), EPSILON) THEN One ELSE Div(One, a0)
    IN [b0 |-> Mul(b0, inv_a0), b1 |-> Mul(b1, inv_a0), b2 |-> Mul(b2, inv_a0),
        a1 |-> Mul(a1, inv_a0), a2 |-> Mul(a2, inv_a0)]

low_shelf_coeffs(freq, gain_db) ==
    LET f == clamp_freq(freq)
        a == powf_gain(gain_db)
        c == cos_w0(f)
        sqrt_a == sqrt_gain(a)
        alpha == Mul(Div(sin_w0(f), 2 * One), SQRT_2)
        ap == Add(a, One)
        am == Sub(a, One)
        tsa == Mul(Mul(2 * One, sqrt_a), alpha)
    IN from_raw(Mul(a, Add(Sub(ap, Mul(am, c)), tsa)),
                Mul(Mul(2 * One, a), Sub(am, Mul(ap, c))),
                Mul(a, Sub(Sub(ap, Mul(am, c)), tsa)),
                Add(Add(ap, Mul(am, c)), tsa),
                Mul(0 - (2 * One), Add(am, Mul(ap, c))),
                Sub(Add(ap, Mul(am, c)), tsa))

high_shelf_coeffs(freq, gain_db) ==
    LET f == clamp_freq(freq)
        a == powf_gain(gain_db)
        c == cos_w0(f)
        sqrt_a == sqrt_gain(a)
        alpha == Mul(Div(sin_w0(f), 2 * One), SQRT_2)
        ap == Add(a, One)
        am == Sub(a, One)
        tsa == Mul(Mul(2 * One, sqrt_a), alpha)
    IN from_raw(Mul(a, Add(Add(ap, Mul(am, c)), tsa)),
                Mul(Mul(0 - (2 * One), a), Add(am, Mul(ap, c))),
                Mul(a, Sub(Add(ap, Mul(am, c)), tsa)),
                Add(Sub(ap, Mul(am, c)), tsa),
                Mul(2 * One, Sub(am, Mul(ap, c))),
                Sub(Sub(ap, Mul(am, c)), tsa))

peaking_coeffs(freq, q, gain_db) ==
    LET f == clamp_freq(freq)
        qc == FClamp(q, Milli(100), 4 * One)
        a == powf_gain(gain_db)
        c == cos_w0(f)
        alpha == Div(sin_w0(f), Mul(2 * One, qc))
    IN from_raw(Add(One, Mul(alpha, a)),
                Mul(0 - (2 * One), c),
                Sub(One, Mul(alpha, a)),
                Add(One, Div(alpha, a)),
                Mul(0 - (2 * One), c),
                Sub(One, Div(alpha, a)))

BiquadState_new == [coeffs |-> identity, z1 |-> 0, z2 |-> 0]

set_coeffs(b, coeffs) == [b EXCEPT !.coeffs = coeffs]

\* BiquadState::process: the output y and the state after it
biquad_y(b, input) == Add(Mul(b.coeffs.b0, input), b.z1)

biquad_process(b, input) ==
    LET y == biquad_y(b, input)
    IN [b EXCEPT
          !.z1 = Add(Sub(Mul(b.coeffs.b1, input), Mul(b.coeffs.a1, y)), b.z2),
          !.z2 = Sub(Mul(b.coeffs.b2, input), Mul(b.coeffs.a2, y))]

EqChain_new ==
    [low |-> BiquadState_new, mid |-> BiquadState_new, high |-> BiquadState_new]

MkEq(lg, lf, mg, mf, mq, hg, hf) ==
    [eq_low_gain_db |-> lg, eq_low_freq_hz |-> lf,
     eq_mid_gain_db |-> mg, eq_mid_freq_hz |-> mf, eq_mid_q |-> mq,
     eq_high_gain_db |-> hg, eq_high_freq_hz |-> hf]

\* faulty variant: each band is rebuilt around its new coefficients
EqChain_update_rebuilding(e, params) ==
    [low |-> set_coeffs(BiquadState_new,
                        low_shelf_coeffs(params.eq_low_freq_hz, params.eq_low_gain_db)),
     mid |-> set_coeffs(BiquadState_new,
                        peaking_coeffs(params.eq_mid_freq_hz, params.eq_mid_q,
                                       params.eq_mid_gain_db)),
     high |-> set_coeffs(BiquadState_new,
                         high_shelf_coeffs(params.eq_high_freq_hz, params.eq_high_gain_db))]

EqChain_update(e, params) ==
    [low |-> set_coeffs(e.low,
                        low_shelf_coeffs(params.eq_low_freq_hz, params.eq_low_gain_db)),
     mid |-> set_coeffs(e.mid,
                        peaking_coeffs(params.eq_mid_freq_hz, params.eq_mid_q,
                                       params.eq_mid_gain_db)),
     high |-> set_coeffs(e.high,
                         high_shelf_coeffs(params.eq_high_freq_hz, params.eq_high_gain_db))]

\* EqChain::process: the output of the chain and the chain after it
EqChain_y(e, sample) ==
    biquad_y(e.high, biquad_y(e.mid, biquad_y(e.low, sample)))

EqChain_process(e, sample) ==
    LET low == biquad_y(e.low, sample)
        mid == biquad_y(e.mid, low)
    IN [low |-> biquad_process(e.low, sample),
        mid |-> biquad_process(e.mid, low),
        high |-> biquad_process(e.high, mid)]

\* the engine before its first update_eq
NoEq == MkEq(0, 0, 0, 0, 0, 0, 0)

\* EQ settings of the parameter snapshot
EqChoices ==
    {MkEq(lg, lf, mg, 3, mq, hg, 10) :
        lg \in {0 - 12, 0}, lf \in {1, 4},
        mg \in {0}, mq \in {One \div 2, One},
        hg \in {0}}

\* the mix of the voices' oscillators handed to the chain
EqSamples == {0 - One, 0, One \div 2}

ZeroGains(params) ==
    /\ params.eq_low_gain_db = 0
    /\ params.eq_mid_gain_db = 0
    /\ params.eq_high_gain_db = 0

UnitGain(e) ==
    /\ e.low.coeffs.b0 = One
    /\ e.mid.coeffs.b0 = One
    /\ e.high.coeffs.b0 = One

(* ---------------------------------------------------------------------- *)
(* AppSettings and the settings file                                       *)
(* ---------------------------------------------------------------------- *)
\* the fields of SynthParams followed here: two of the f32 fields (the
\* others are written and parsed by the same code), waveform and instrument
SynthParams_default ==
    [gain |-> 20, attack_seconds |-> 1, instrument |-> "Keys", waveform |-> "Saw"]

AppSettings_default ==
    [theme |-> "Fl", params |-> SynthParams_default, output_device |-> "None",
     layout_mode |-> "ThreeColumn", keyboard_scale |-> One, keybinds |-> "Default"]

ThemeKind_as_key(theme) ==
    CASE theme = "Fl" -> "fl"
      [] theme = "Light" -> "light"
      [] theme = "Midnight" -> "midnight"
      [] theme = "Sunset" -> "sunset"
      [] theme = "Neon" -> "neon"
      [] theme = "Forest" -> "forest"
      [] theme = "Ocean" -> "ocean"
      [] theme = "Vapor" -> "vapor"
      [] theme = "Mono" -> "mono"
      [] theme = "Pastel" -> "pastel"
      [] theme = "SolarizedDark" -> "solarized_dark"
      [] theme = "SolarizedLight" -> "solarized_light"
      [] theme = "Industrial" -> "industrial"
      [] theme = "Candy" -> "candy"
      [] theme = "Terminal" -> "terminal"

ThemeKind_from_str(str) ==
    CASE str = "light" -> "Light"
      [] str = "midnight" -> "Midnight"
      [] str = "sunset" -> "Sunset"
      [] str = "neon" -> "Neon"
      [] str = "forest" -> "Forest"
      [] str = "ocean" -> "Ocean"
      [] str = "vapor" -> "Vapor"
      [] str = "mono" -> "Mono"
      [] str = "pastel" -> "Pastel"
      [] str \in {"solarized_dark", "solarized-dark"} -> "SolarizedDark"
      [] str \in {"solarized_light", "solarized-light"} -> "SolarizedLight"
      [] str = "industrial" -> "Industrial"
      [] str = "candy" -> "Candy"
      [] str = "terminal" -> "Terminal"
      [] OTHER -> "Fl"

LayoutMode_as_key(mode) ==
    CASE mode = "Stacked" -> "stacked"
      [] mode = "TwoColumn" -> "two_column"
      [] mode = "ThreeColumn" -> "three_column"

LayoutMode_from_str(str) ==
    CASE str = "stacked" -> "Stacked"
      [] str \in {"two_column", "two-column"} -> "TwoColumn"
      [] OTHER -> "ThreeColumn"

KeybindScheme_as_key(scheme) ==
    CASE scheme = "Default" -> "default"
      [] scheme = "Vim" -> "vim"
      [] scheme = "Emacs" -> "emacs"
      [] scheme = "Sublime" -> "sublime"
      [] scheme = "VSCode" -> "vscode"

KeybindScheme_from_str(str) ==
    CASE str = "vim" -> "Vim"
      [] str = "emacs" -> "Emacs"
      [] str = "sublime" -> "Sublime"
      [] str \in {"vscode", "vs code", "vs_code"} -> "VSCode"
      [] OTHER -> "Default"

waveform_key(waveform) ==
    CASE waveform = "Sine" -> "sine"
      [] waveform = "Square" -> "square"
      [] waveform = "Saw" -> "saw"
      [] waveform = "Triangle" -> "triangle"

\* Some(..) or "None"
parse_waveform(str) ==
    CASE str = "sine" -> "Sine"
      [] str = "square" -> "Square"
      [] str \in {"saw", "sawtooth"} -> "Saw"
      [] str = "triangle" -> "Triangle"
      [] OTHER -> "None"

\* format!("{}", x) for an f32: "NaN", "inf", "-inf", or the decimal digits of
\* the value; a value of x / One has five decimals, e5 = its digits as a
\* number of 1/100000
fmt_f32(x) ==
    IF x = NaN THEN [word |-> "NaN", neg |-> FALSE, e5 |-> 0]
    ELSE IF x = PosInf THEN [word |-> "inf", neg |-> FALSE, e5 |-> 0]
    ELSE IF x = NegInf THEN [word |-> "-inf", neg |-> FALSE, e5 |-> 0]
    ELSE [word |-> "", neg |-> x < 0, e5 |-> (Abs(x) * 100000) \div One]

\* the text of an enum key
fmt_key(str) == [word |-> str, neg |-> FALSE, e5 |-> 0]

\* parse_f32(value, &mut target): value.parse::<f32>() gives the nearest f32
\* to the decimal; the target stays on a parse error
parse_f32(text, target) ==
    IF text.word = "NaN" THEN NaN
    ELSE IF text.word = "inf" THEN PosInf
    ELSE IF text.word = "-inf" THEN NegInf
    ELSE IF text.word # "" THEN target
    ELSE LET n == text.e5 * One
             q == n \div 100000
             r == n % 100000
             nearest == IF 2 * r < 100000 THEN q
                        ELSE IF 2 * r > 100000 THEN q + 1
                        ELSE IF q % 2 = 0 THEN q ELSE q + 1
         IN Rnd(IF text.neg THEN 0 - nearest ELSE nearest)

\* faulty variant: no line for the waveform
append_param_lines_short(params) ==
    << [key |-> "gain", value |-> fmt_f32(params.gain)],
       [key |-> "attack_seconds", value |-> fmt_f32(params.attack_seconds)] >>

append_param_lines(params) ==
    << [key |-> "gain", value |-> fmt_f32(params.gain)],
       [key |-> "attack_seconds", value |-> fmt_f32(params.attack_seconds)],
       [key |-> "waveform", value |-> fmt_key(waveform_key(params.waveform))] >>

\* AppSettings::save: the lines written, in order
save(st) ==
    << [key |-> "theme", value |-> fmt_key(ThemeKind_as_key(st.theme))] >>
    \o (IF st.output_device = "None" THEN <<>>
        ELSE << [key |-> "output_device", value |-> fmt_key(st.output_device)] >>)
    \o << [key |-> "layout_mode", value |-> fmt_key(LayoutMode_as_key(st.layout_mode))],
          [key |-> "keyboard_scale", value |-> fmt_f32(st.keyboard_scale)],
          [key |-> "keybinds", value |-> fmt_key(KeybindScheme_as_key(st.keybinds))] >>
    \o append_param_lines(st.params)

apply_kv(key, value, st) ==
    CASE key = "theme" -> [st EXCEPT !.theme = ThemeKind_from_str(value.word)]
      [] key = "output_device" ->
            [st EXCEPT !.output_device = IF value.word = "" THEN "None" ELSE value.word]
      [] key = "layout_mode" -> [st EXCEPT !.layout_mode = LayoutMode_from_str(value.word)]
      [] key = "keyboard_scale" ->
            [st EXCEPT !.keyboard_scale = parse_f32(value, st.keyboard_scale)]
      [] key = "keybinds" -> [st EXCEPT !.keybinds = KeybindScheme_from_str(value.word)]
      [] key = "gain" -> [st EXCEPT !.params.gain = parse_f32(value, st.params.gain)]
      [] key = "attack_seconds" ->
            [st EXCEPT !.params.attack_seconds = parse_f32(value, st.params.attack_seconds)]
      [] key = "waveform" ->
            IF parse_waveform(value.word) = "None" THEN st
            ELSE [st EXCEPT !.params.waveform = parse_waveform(value.word)]
      [] OTHER -> st

RECURSIVE apply_lines(_, _)
apply_lines(lines, st) ==
    IF lines = <<>> THEN st
    ELSE apply_lines(Tail(lines), apply_kv(Head(lines).key, Head(lines).value, st))

\* AppSettings::load of a file with these lines
load(lines) == apply_lines(lines, AppSettings_default)

\* AppSettings values a user can reach from the UI
SettingsChoices ==
    { [theme |-> t,
       params |-> [gain |-> g, attack_seconds |-> 1, instrument |-> i, waveform |-> w],
       output_device |-> d, layout_mode |-> l, keyboard_scale |-> One, keybinds |-> k] :
        t \in {"Fl", "Light", "SolarizedDark", "Terminal"},
        g \in {0, 20, One},
        i \in {"Keys", "Bass"},
        w \in {"Saw", "Triangle"},
        d \in {"None", "default"},
        l \in {"Stacked", "TwoColumn", "ThreeColumn"},
        k \in {"Default", "VSCode"} }

(* ---------------------------------------------------------------------- *)
(* ScopeBuffer: samples is the VecDeque, front first                       *)
(* ---------------------------------------------------------------------- *)
ScopeBuffer_new(capacity) == [samples |-> <<>>, capacity |-> capacity]

\* pop_front of a VecDeque: nothing to pop when it is empty
pop_front(q) == IF q = <<>> THEN q ELSE Tail(q)

\* the body of record's loop for one sample
record_one(sb, sample) ==
    LET kept == IF Len(sb.samples) = sb.capacity THEN pop_front(sb.samples)
                ELSE sb.samples
    IN [sb EXCEPT !.samples = Append(kept, sample)]

RECURSIVE ScopeBuffer_record(_, _)
ScopeBuffer_record(sb, block) ==
    IF block = <<>> THEN sb
    ELSE ScopeBuffer_record(record_one(sb, Head(block)), Tail(block))

ScopeBuffer_snapshot(sb) == [i \in 1..Len(sb.samples) |-> sb.samples[i]]

\* sample values, and the blocks handed to record
Samples == {0, One \div 2, One}

Blocks == UNION { [1..n -> Samples] : n \in 0..MaxBlock }

(* ---------------------------------------------------------------------- *)
(* History                                                                 *)
(* tail[n]: from = level of n's voice on entering Release, ticks = samples *)
(* rendered in Release since (saturating at MaxTail), steady = the         *)
(* snapshot's release_seconds did not change meanwhile.                    *)
(* hist: the last MaxHist calls on the shared model, each with the model   *)
(* as it was before the call.  taken: the model when snapshot() was last   *)
(* called.                                                                 *)
(* ---------------------------------------------------------------------- *)
NoTail == [from |-> 0, ticks |-> 0, steady |-> TRUE]

tail_after_sample(t, sv) ==
    [n \in Notes |->
        IF HasVoice(sv, n) /\ VoiceOf(sv, n).stage = "Release"
        THEN IF t[n].ticks = 0
             THEN [from |-> VoiceOf(sv, n).env_level, ticks |-> 1, steady |-> TRUE]
             ELSE [t[n] EXCEPT !.ticks = IF @ < MaxTail THEN @ + 1 ELSE MaxTail]
        ELSE NoTail]

tail_after_snapshot(t, old, new) ==
    [n \in Notes |->
        IF t[n].ticks > 0
        THEN [t[n] EXCEPT !.steady = @ /\ old.params.release_seconds = new.params.release_seconds]
        ELSE t[n]]

Record(h, op, note, pre) ==
    LET e == [op |-> op, note |-> note, pre |-> pre]
    IN IF Len(h) < MaxHist THEN Append(h, e) ELSE Append(Tail(h), e)

\* ramp: ticks = samples rendered since the voice was created, while it has
\* been in Attack with the same attack_seconds (saturating at MaxRamp);
\* live = the voice has been followed so from its creation.
NoRamp == [ticks |-> 0, attack_seconds |-> 0, live |-> FALSE]

ramp_after_sample(r, v, sv, params) ==
    IF sv.stage = "Attack" /\ v = VoiceState_new(v.note)
    THEN [ticks |-> 1, attack_seconds |-> params.attack_seconds, live |-> TRUE]
    ELSE IF r.live /\ sv.stage = "Attack" /\ params.attack_seconds = r.attack_seconds
    THEN [r EXCEPT !.ticks = IF @ < MaxRamp THEN @ + 1 ELSE MaxRamp]
    ELSE NoRamp

(* ---------------------------------------------------------------------- *)
(* Operations                                                              *)
(* ---------------------------------------------------------------------- *)
InitEngine ==
    /\ shared = new_with_params(StartParams)
    /\ snapshot = SynthShared_snapshot(new_with_params(StartParams))
    /\ voices = <<>>
    /\ tail = [n \in Notes |-> NoTail]
    /\ hist = <<>>
    /\ taken = new_with_params(StartParams)

InitVoice ==
    /\ voice = VoiceState_new(0)
    /\ vparams = StartParams
    /\ ramp = NoRamp

InitScope ==
    /\ scope = ScopeBuffer_new(MaxCap)
    /\ recorded = <<>>

InitRender ==
    /\ pc = "idle"
    /\ frames = 0
    /\ frame = 0
    /\ lock = "none"
    /\ poisoned = FALSE
    /\ acquired = 0
    /\ snap_at = 0 - 1
    /\ since = [n \in Notes |-> 0]
    /\ eq_from = NoParams

InitEq ==
    /\ eq = EqChain_new
    /\ eqset = NoEq
    /\ io = [x |-> 0, y |-> 0, eqset |-> NoEq]
    /\ flat = TRUE
    /\ unit = TRUE
    /\ fed = 0

InitApp ==
    /\ slock = "none"
    /\ spoisoned = FALSE
    /\ srec = "none"
    /\ octave_offset = 0
    /\ down = [k \in Keys |-> NoNote]
    /\ settings = AppSettings_default
    /\ file = <<>>
    /\ loaded = [valid |-> FALSE, settings |-> AppSettings_default]
    /\ watch = "off"
    /\ blipped = FALSE

Init ==
    /\ InitEngine
    /\ InitVoice
    /\ InitScope
    /\ InitRender
    /\ InitEq
    /\ InitApp

\* faulty variant: the snapshot's note list is a view of the live set
PressNote_aliased(note) ==
    /\ shared' = press_note(shared, note)
    /\ snapshot' = [snapshot EXCEPT !.pressed_notes = shared'.pressed_notes]
    /\ UNCHANGED voices

\* UI thread: shared.press_note(note)
PressNote(note) ==
    /\ shared' = press_note(shared, note)
    /\ UNCHANGED <<snapshot, voices>>

\* UI thread: shared.release_note(note)
ReleaseNote(note) ==
    /\ shared' = release_note(shared, note)
    /\ UNCHANGED <<snapshot, voices>>

\* UI thread: shared.params = ...
WriteParams(params) ==
    /\ shared' = [shared EXCEPT !.params = params]
    /\ UNCHANGED <<snapshot, voices>>

\* audio thread: snapshot = shared.lock().snapshot()
TakeSnapshot ==
    /\ snapshot' = SynthShared_snapshot(shared)
    /\ UNCHANGED <<shared, voices>>

\* audio thread: engine.next_sample(&snapshot)
NextSample ==
    /\ UNCHANGED <<shared, snapshot>>
    /\ voices' = engine_next_sample(voices, snapshot, SampleRate)

(* Engine and model together *)
Next ==
    \/ \E note \in Notes : PressNote(note) /\ UNCHANGED <<tail, hist, taken, others>>
    \/ \E note \in Notes : ReleaseNote(note) /\ UNCHANGED <<tail, hist, taken, others>>
    \/ \E params \in ParamChoices : WriteParams(params) /\ UNCHANGED <<tail, hist, taken, others>>
    \/ TakeSnapshot /\ UNCHANGED <<tail, hist, taken, others>>
    \/ NextSample /\ UNCHANGED <<tail, hist, taken, others>>

Spec == Init /\ [][Next]_vars

(* The same, with the release tails measured *)
NextTail ==
    \/ \E note \in Notes : PressNote(note) /\ UNCHANGED <<tail, hist, taken, others>>
    \/ \E note \in Notes : ReleaseNote(note) /\ UNCHANGED <<tail, hist, taken, others>>
    \/ \E params \in TailParams : WriteParams(params) /\ UNCHANGED <<tail, hist, taken, others>>
    \/ /\ TakeSnapshot
       /\ tail' = tail_after_snapshot(tail, snapshot, snapshot')
       /\ UNCHANGED <<hist, taken, others>>
    \/ /\ NextSample
       /\ tail' = tail_after_sample(tail, sync_voices(voices, snapshot.pressed_notes))
       /\ UNCHANGED <<hist, taken, others>>

SpecTail == Init /\ [][NextTail]_vars

(* The shared model alone, with its calls recorded *)
NextShared ==
    \/ \E note \in Notes :
          /\ PressNote(note)
          /\ hist' = Record(hist, "press", note, shared)
          /\ UNCHANGED <<tail, taken, others>>
    \/ \E note \in Notes :
          /\ ReleaseNote(note)
          /\ hist' = Record(hist, "release", note, shared)
          /\ UNCHANGED <<tail, taken, others>>
    \/ \E params \in ParamChoices :
          /\ WriteParams(params)
          /\ hist' = Record(hist, "write", 0, shared)
          /\ UNCHANGED <<tail, taken, others>>
    \/ /\ TakeSnapshot
       /\ hist' = Record(hist, "snapshot", 0, shared)
       /\ taken' = shared
       /\ UNCHANGED <<tail, others>>

SpecShared == Init /\ [][NextShared]_vars

(* ---------------------------------------------------------------------- *)
(* The rendering call (write_samples_f32) beside the producer thread       *)
(* ---------------------------------------------------------------------- *)
\* frames between two snapshot refreshes (64 in the source, scaled down)
SNAPSHOT_REFRESH_INTERVAL == 2

\* faulty variant: the refresh one frame late
refresh_due_late(i) == i % (SNAPSHOT_REFRESH_INTERVAL + 1) = 0

\* if i % SNAPSHOT_REFRESH_INTERVAL == 0
refresh_due(i) == i % SNAPSHOT_REFRESH_INTERVAL = 0

\* the parameter values the producer writes while a call renders
RenderParams == {StartParams, ZeroTimes}

since_after_frame(c) ==
    [n \in Notes |->
        IF c[n] <= SNAPSHOT_REFRESH_INTERVAL + 1 THEN c[n] + 1 ELSE c[n]]

\* producer thread: shared.lock() (blocks while the audio thread holds it;
\* a poisoned lock ends the producer's frame)
UiLock ==
    /\ lock = "none"
    /\ ~poisoned
    /\ lock' = "ui"
    /\ UNCHANGED <<engvars, pc, frames, frame, poisoned, acquired, snap_at, eq_from>>

\* producer thread, holding the guard: press_note / release_note
UiPress(note) ==
    /\ lock = "ui"
    /\ PressNote(note)
    /\ UNCHANGED <<tail, hist, taken, pc, frames, frame, lock, poisoned, acquired, snap_at, eq_from>>

UiRelease(note) ==
    /\ lock = "ui"
    /\ ReleaseNote(note)
    /\ UNCHANGED <<tail, hist, taken, pc, frames, frame, lock, poisoned, acquired, snap_at, eq_from>>

\* producer thread, holding the guard: a slider or a reset writes the parameters
UiWrite(params) ==
    /\ lock = "ui"
    /\ WriteParams(params)
    /\ UNCHANGED <<tail, hist, taken, pc, frames, frame, lock, poisoned, acquired, snap_at, eq_from>>

\* producer thread: the guard is dropped at the end of the frame
UiUnlock ==
    /\ lock = "ui"
    /\ lock' = "none"
    /\ UNCHANGED <<engvars, pc, frames, frame, poisoned, acquired, snap_at, eq_from>>

\* producer thread: a panic while the guard is held poisons the mutex
UiPanic ==
    /\ lock = "ui"
    /\ lock' = "none"
    /\ poisoned' = TRUE
    /\ UNCHANGED <<engvars, pc, frames, frame, acquired, snap_at, eq_from>>

\* the backend calls write_samples_f32 with a buffer of n frames
BeginCall(n) ==
    /\ pc = "idle"
    /\ pc' = "lock0"
    /\ frames' = n
    /\ frame' = 0
    /\ acquired' = 0
    /\ snap_at' = 0 - 1
    /\ UNCHANGED <<engvars, lock, poisoned, eq_from>>

\* shared.lock().expect("Synth parameters poisoned"): blocks while the
\* producer holds the mutex, panics when it is poisoned
AcquireModel ==
    /\ pc \in {"lock0", "lock"}
    /\ lock = "none"
    /\ IF poisoned
       THEN /\ pc' = "panicked"
            /\ UNCHANGED <<lock, acquired>>
       ELSE /\ pc' = IF pc = "lock0" THEN "copy0" ELSE "copy"
            /\ lock' = "audio"
            /\ acquired' = acquired + 1
    /\ UNCHANGED <<engvars, frames, frame, poisoned, snap_at, eq_from>>

\* faulty variant: the guard outlives the block that copies the snapshot
CopySnapshot_holding ==
    /\ pc \in {"copy0", "copy"}
    /\ TakeSnapshot
    /\ pc' = IF pc = "copy0" THEN "eq0" ELSE "eq"
    /\ snap_at' = frame
    /\ UNCHANGED <<tail, hist, taken, frames, frame, lock, poisoned, acquired, eq_from>>

\* shared.snapshot(); the guard is dropped at the end of the block
CopySnapshot ==
    /\ pc \in {"copy0", "copy"}
    /\ TakeSnapshot
    /\ lock' = "none"
    /\ pc' = IF pc = "copy0" THEN "eq0" ELSE "eq"
    /\ snap_at' = frame
    /\ UNCHANGED <<tail, hist, taken, frames, frame, poisoned, acquired, eq_from>>

\* where the loop goes before frame i: out of the loop, to the refresh, or
\* straight to next_sample
loop_head(i, n) ==
    IF i >= n THEN "scope"
    ELSE IF refresh_due(i) THEN "lock"
    ELSE "sample"

\* faulty variant: the refresh inside the loop leaves the coefficients alone
UpdateEq_first_only ==
    /\ pc \in {"eq0", "eq"}
    /\ pc' = IF pc = "eq0" THEN loop_head(0, frames) ELSE "sample"
    /\ eq_from' = IF pc = "eq0" THEN snapshot.params ELSE eq_from
    /\ UNCHANGED <<engvars, frames, frame, lock, poisoned, acquired, snap_at>>

\* engine.update_eq(&snapshot.params); eq_from records the parameters the
\* coefficients were computed from
UpdateEq ==
    /\ pc \in {"eq0", "eq"}
    /\ pc' = IF pc = "eq0" THEN loop_head(0, frames) ELSE "sample"
    /\ eq_from' = snapshot.params
    /\ UNCHANGED <<engvars, frames, frame, lock, poisoned, acquired, snap_at>>

\* faulty variant: the engine reads the live held set, not the snapshot
RenderFrame_live ==
    /\ pc = "sample"
    /\ voices' = engine_next_sample(voices, SynthShared_snapshot(shared), SampleRate)
    /\ frame' = frame + 1
    /\ pc' = loop_head(frame + 1, frames)
    /\ UNCHANGED <<shared, snapshot, tail, hist, taken, frames, lock, poisoned, acquired, snap_at, eq_from>>

\* engine.next_sample(&snapshot) and the copy into the frame
RenderFrame ==
    /\ pc = "sample"
    /\ NextSample
    /\ frame' = frame + 1
    /\ pc' = loop_head(frame + 1, frames)
    /\ UNCHANGED <<tail, hist, taken, frames, lock, poisoned, acquired, snap_at, eq_from>>

\* record_scope(scope, &scope_block) and the return
RecordScope ==
    /\ pc = "scope"
    /\ pc' = "idle"
    /\ UNCHANGED <<engvars, frames, frame, lock, poisoned, acquired, snap_at, eq_from>>

NextRender ==
    \/ UiLock /\ UNCHANGED <<voicevars, scopevars, eqvars, since, appvars>>
    \/ \E note \in Notes : UiPress(note) /\ UNCHANGED <<voicevars, scopevars, eqvars, since, appvars>>
    \/ \E note \in Notes : UiRelease(note) /\ UNCHANGED <<voicevars, scopevars, eqvars, since, appvars>>
    \/ \E params \in RenderParams : UiWrite(params) /\ UNCHANGED <<voicevars, scopevars, eqvars, since, appvars>>
    \/ UiUnlock /\ UNCHANGED <<voicevars, scopevars, eqvars, since, appvars>>
    \/ UiPanic /\ UNCHANGED <<voicevars, scopevars, eqvars, since, appvars>>
    \/ \E n \in 0..MaxFrames : BeginCall(n) /\ UNCHANGED <<voicevars, scopevars, eqvars, since, appvars>>
    \/ AcquireModel /\ UNCHANGED <<voicevars, scopevars, eqvars, since, appvars>>
    \/ CopySnapshot /\ UNCHANGED <<voicevars, scopevars, eqvars, since, appvars>>
    \/ UpdateEq /\ UNCHANGED <<voicevars, scopevars, eqvars, since, appvars>>
    \/ RenderFrame /\ UNCHANGED <<voicevars, scopevars, eqvars, since, appvars>>
    \/ RecordScope /\ UNCHANGED <<voicevars, scopevars, eqvars, since, appvars>>

SpecRender == Init /\ [][NextRender]_vars

\* the same two threads without the panic, with the frames since each
\* note's last press or release counted
since_after_press(c, s, note) ==
    IF is_pressed(s, note) THEN c ELSE [c EXCEPT ![note] = 0]

since_after_release(c, s, note) ==
    IF is_pressed(s, note) THEN [c EXCEPT ![note] = 0] ELSE c

NextLag ==
    \/ UiLock /\ UNCHANGED <<voicevars, scopevars, eqvars, since, appvars>>
    \/ \E note \in Notes :
          /\ UiPress(note)
          /\ since' = since_after_press(since, shared, note)
          /\ UNCHANGED <<voicevars, scopevars, eqvars, appvars>>
    \/ \E note \in Notes :
          /\ UiRelease(note)
          /\ since' = since_after_release(since, shared, note)
          /\ UNCHANGED <<voicevars, scopevars, eqvars, appvars>>
    \/ UiUnlock /\ UNCHANGED <<voicevars, scopevars, eqvars, since, appvars>>
    \/ \E n \in 0..MaxFrames : BeginCall(n) /\ UNCHANGED <<voicevars, scopevars, eqvars, since, appvars>>
    \/ AcquireModel /\ UNCHANGED <<voicevars, scopevars, eqvars, since, appvars>>
    \/ CopySnapshot /\ UNCHANGED <<voicevars, scopevars, eqvars, since, appvars>>
    \/ UpdateEq /\ UNCHANGED <<voicevars, scopevars, eqvars, since, appvars>>
    \/ /\ RenderFrame
       /\ since' = since_after_frame(since)
       /\ UNCHANGED <<voicevars, scopevars, eqvars, appvars>>
    \/ RecordScope /\ UNCHANGED <<voicevars, scopevars, eqvars, since, appvars>>

SpecLag == Init /\ [][NextLag]_vars

(* ---------------------------------------------------------------------- *)
(* The engine with its EQ chain                                            *)
(* ---------------------------------------------------------------------- *)
\* audio thread: engine.update_eq(&snapshot.params)
update_eq(params) ==
    /\ eq' = EqChain_update(eq, params)
    /\ eqset' = params
    /\ flat' = (flat /\ ZeroGains(params))
    /\ unit' = (unit /\ UnitGain(eq'))
    /\ UNCHANGED <<shared, snapshot, voices, io, fed>>

\* audio thread: engine.next_sample(&snapshot), the mix being x
next_sample(x) ==
    /\ fed < MaxFed
    /\ NextSample
    /\ eq' = EqChain_process(eq, x)
    /\ io' = [x |-> x, y |-> EqChain_y(eq, x), eqset |-> eqset]
    /\ fed' = fed + 1
    /\ UNCHANGED <<eqset, flat, unit>>

NextEq ==
    \/ PressNote(0) /\ UNCHANGED <<tail, hist, taken, voicevars, scopevars, rendervars, eqvars, appvars>>
    \/ ReleaseNote(0) /\ UNCHANGED <<tail, hist, taken, voicevars, scopevars, rendervars, eqvars, appvars>>
    \/ TakeSnapshot /\ UNCHANGED <<tail, hist, taken, voicevars, scopevars, rendervars, eqvars, appvars>>
    \/ \E params \in EqChoices :
          update_eq(params) /\ UNCHANGED <<tail, hist, taken, voicevars, scopevars, rendervars, appvars>>
    \/ \E x \in EqSamples :
          next_sample(x) /\ UNCHANGED <<tail, hist, taken, voicevars, scopevars, rendervars, appvars>>

SpecEq == Init /\ [][NextEq]_vars

(* ---------------------------------------------------------------------- *)
(* One voice through SynthEngine::next_sample                              *)
(* ---------------------------------------------------------------------- *)
\* the envelope parameters a snapshot may carry: times below, at and above
\* zero, whole and fractional numbers of samples; sustain levels down to a
\* few units above zero
EnvParams ==
    { MkParams(a, d, s, r) :
        a \in {0 - One, 0, 1, One + (One \div 2), 2 * One, 3 * One},
        d \in {0 - One, 0, 2 * One},
        s \in {3, One \div 2, One},
        r \in {0 - One, 0, 2 * One} }

\* what one call of next_sample does to a voice of the pool: sync_voices
\* sets its gate, the mixing loop advances it, retain drops it when finished
\* (a later press then constructs a new voice)
VoiceSample(gate, params) ==
    LET sv == set_gate(voice, gate)
        nv == voice_next_sample(sv, params, SampleRate)
    IN /\ voice' = IF is_finished(nv) THEN VoiceState_new(voice.note) ELSE nv
       /\ vparams' = params
       /\ ramp' = ramp_after_sample(ramp, voice, sv, params)

NextVoice ==
    \/ \E params \in EnvParams :
          VoiceSample(TRUE, params) /\ UNCHANGED <<engvars, scopevars, rendervars, eqvars, appvars>>
    \/ \E params \in EnvParams :
          VoiceSample(FALSE, params) /\ UNCHANGED <<engvars, scopevars, rendervars, eqvars, appvars>>

SpecVoice == Init /\ [][NextVoice]_vars

(* ====================================================================== *)
(* Claims                                                                  *)
(* ====================================================================== *)
VoicesOfNote(vs, note) == {i \in 1..Len(vs) : vs[i].note = note}

\* C1: for every note of the snapshot's held-note list that has no voice,
\* the synchronization step at the start of next_sample creates exactly one
\* voice for it, which right after the step is in Attack with its gate on
\* (and is still in the pool, gate on, when next_sample returns).
C1_SyncCreatesAttackVoice ==
    [][NextSample =>
        LET sv == sync_voices(voices, snapshot.pressed_notes)
        IN \A n \in Notes :
              (Contains(snapshot.pressed_notes, n) /\ ~HasVoice(voices, n)) =>
                 /\ Cardinality(VoicesOfNote(sv, n)) = 1
                 /\ VoiceOf(sv, n).stage = "Attack"
                 /\ VoiceOf(sv, n).gate
                 /\ Cardinality(VoicesOfNote(voices', n)) = 1
                 /\ VoiceOf(voices', n).gate
                 /\ VoiceOf(voices', n).stage \in {"Attack", "Decay"}]_vars

\* a voice that the last synchronization created and that has rendered its
\* first sample of Attack, beside an older voice
C1_Witness ==
    \E i, j \in 1..Len(voices) :
        /\ i # j
        /\ voices[i].stage = "Attack"
        /\ voices[i].gate
        /\ voices[i].env_level = attack_step(snapshot.params, SampleRate)
        /\ Contains(snapshot.pressed_notes, voices[i].note)
        /\ voices[j].stage = "Sustain"

\* C2: the pool never holds two voices for the same note number.
C2_OneVoicePerNote ==
    \A i, j \in 1..Len(voices) : voices[i].note = voices[j].note => i = j

\* every note is held and has been synchronized again and again: each has
\* its one voice, already in Sustain
C2_Witness ==
    /\ Len(snapshot.pressed_notes) = Cardinality(Notes)
    /\ Len(shared.pressed_notes) = Cardinality(Notes)
    /\ Len(voices) = Cardinality(Notes)
    /\ \A i \in 1..Len(voices) : voices[i].stage = "Sustain"

\* C3: a voice in Attack, Decay or Sustain whose note is no longer held is
\* moved to Release (level unchanged) by the synchronization step, never to
\* Idle; a voice in Release never gains level; Idle is entered only from
\* Release, only with the level at 0, and the voice is then removed, so it
\* enters Idle once.
C3_ReleaseThenIdleAtZero ==
    [][NextSample =>
        LET sv == sync_voices(voices, snapshot.pressed_notes)
            mv == mix_voices(sv, snapshot.params, SampleRate)
        IN \A i \in 1..Len(voices) :
              /\ (voices[i].stage \in {"Attack", "Decay", "Sustain"}
                    /\ ~Contains(snapshot.pressed_notes, voices[i].note))
                 => (sv[i].stage = "Release" /\ sv[i].env_level = voices[i].env_level)
              /\ sv[i].stage = "Release" =>
                    /\ ~FGt(mv[i].env_level, voices[i].env_level)
                    /\ mv[i].stage \in {"Release", "Idle"}
                    /\ mv[i].stage = "Release" =>
                          /\ ~FLe(mv[i].env_level, 0)
                          /\ HasVoice(voices', voices[i].note)
                          /\ VoiceOf(voices', voices[i].note) = mv[i]
              /\ mv[i].stage = "Idle" =>
                    /\ sv[i].stage = "Release"
                    /\ mv[i].env_level = 0
                    /\ ~HasVoice(voices', voices[i].note)]_vars

\* a released voice part-way down its release tail, beside a held one
C3_Witness ==
    \E i, j \in 1..Len(voices) :
        /\ voices[i].stage = "Release"
        /\ ~voices[i].gate
        /\ voices[i].env_level > 0
        /\ voices[i].env_level < One
        /\ ~Contains(snapshot.pressed_notes, voices[i].note)
        /\ voices[j].stage = "Sustain"

\* C5: every voice's envelope level is a number in [0, 1].
C5_EnvelopeInUnitRange ==
    \A i \in 1..Len(voices) :
        FGe(voices[i].env_level, 0) /\ FLe(voices[i].env_level, One)

\* release_seconds * sample_rate, in whole samples (0 when instantaneous)
ReleaseSamples(params) ==
    IF params.release_seconds <= 0 THEN 0
    ELSE FMul(params.release_seconds, SampleRate) \div One

\* 1 / (release_seconds * sample_rate), the level a released voice loses per
\* sample (the whole level when release_seconds <= 0)
ReleaseRate(params) ==
    IF params.release_seconds <= 0 THEN One
    ELSE FDiv(One, FMul(params.release_seconds, SampleRate))

Measured(n) ==
    /\ tail[n].ticks >= 1
    /\ tail[n].ticks < MaxTail
    /\ tail[n].steady

C6_RemovedIffIdleAndGateOff ==
    [][NextSample =>
        LET mv == mix_voices(sync_voices(voices, snapshot.pressed_notes),
                             snapshot.params, SampleRate)
        IN /\ \A i \in 1..Len(mv) :
                 /\ (mv[i].stage = "Idle" /\ ~mv[i].gate)
                       <=> ~HasVoice(voices', mv[i].note)
                 /\ HasVoice(voices', mv[i].note)
                       => VoiceOf(voices', mv[i].note) = mv[i]
                 /\ mv[i].stage = "Release" => HasVoice(voices', mv[i].note)
           /\ \A j \in 1..Len(voices') : HasVoice(mv, voices'[j].note)]_vars

\* one released voice has run out its tail and is gone while another
\* released voice is still in the pool, in Release
C6_Witness ==
    \E n, m \in Notes :
        /\ tail[n].ticks >= 2
        /\ ~HasVoice(voices, n)
        /\ tail[m].ticks >= 1
        /\ HasVoice(voices, m)
        /\ VoiceOf(voices, m).stage = "Release"
        /\ ~VoiceOf(voices, m).gate

Count(seq, x) == Cardinality({i \in 1..Len(seq) : seq[i] = x})

LastCalls(k) == SubSeq(hist, Len(hist) - k + 1, Len(hist))

\* C7: the snapshot equals the model as it was when snapshot() was called,
\* whatever has been pressed, released or written since.
C7_SnapshotIndependent ==
    /\ snapshot.params = taken.params
    /\ snapshot.pressed_notes = taken.pressed_notes

\* the model was pressed, released and written after the snapshot was taken
C7_Witness ==
    /\ Len(hist) >= 3
    /\ \A k \in 1..Len(hist) : hist[k].op # "snapshot"
    /\ \E k \in 1..Len(hist) : hist[k].op = "write"
    /\ \E k \in 1..Len(hist) : hist[k].op = "press"
    /\ snapshot.pressed_notes # <<>>
    /\ snapshot.pressed_notes # shared.pressed_notes
    /\ snapshot.params # shared.params

PressReleaseSnapshot(n) ==
    /\ Len(hist) >= 3
    /\ LastCalls(3)[1].op = "press" /\ LastCalls(3)[1].note = n
    /\ LastCalls(3)[2].op = "release" /\ LastCalls(3)[2].note = n
    /\ LastCalls(3)[3].op = "snapshot"

\* C8: after press(n), release(n), snapshot() the snapshot's list does not
\* contain n and holds every other note exactly as the model did before the
\* press.
C8_PressReleaseRoundTrip ==
    \A n \in Notes :
        PressReleaseSnapshot(n) =>
            /\ ~Contains(snapshot.pressed_notes, n)
            /\ \A m \in Notes \ {n} :
                  Count(snapshot.pressed_notes, m)
                     = Count(LastCalls(3)[1].pre.pressed_notes, m)

\* the round trip on a model that already held both n and another note
C8_Witness ==
    \E n \in Notes :
        /\ PressReleaseSnapshot(n)
        /\ Contains(LastCalls(3)[1].pre.pressed_notes, n)
        /\ snapshot.pressed_notes # <<>>

PressedTwice(n) ==
    /\ Len(hist) >= 2
    /\ LastCalls(2)[1].op = "press" /\ LastCalls(2)[1].note = n
    /\ LastCalls(2)[2].op = "press" /\ LastCalls(2)[2].note = n

\* C9: the second of two press(n) calls changes nothing, the held set never
\* has a duplicate entry, and is_pressed(n) holds after press(n).
C9_PressIdempotent ==
    /\ \A n \in Notes : PressedTwice(n) => shared = LastCalls(2)[2].pre
    /\ \A n \in Notes :
          (Len(hist) >= 1 /\ LastCalls(1)[1].op = "press" /\ LastCalls(1)[1].note = n)
             => is_pressed(shared, n)
    /\ \A m \in Notes : Count(shared.pressed_notes, m) <= 1

\* press(n) twice on a model that did not hold n but held another note
C9_Witness ==
    \E n \in Notes :
        /\ PressedTwice(n)
        /\ ~Contains(LastCalls(2)[1].pre.pressed_notes, n)
        /\ LastCalls(2)[1].pre.pressed_notes # <<>>

ReleasedTwice(n) ==
    /\ Len(hist) >= 2
    /\ LastCalls(2)[1].op = "release" /\ LastCalls(2)[1].note = n
    /\ LastCalls(2)[2].op = "release" /\ LastCalls(2)[2].note = n

\* C10: the second of two release(n) calls changes nothing, release(n) of a
\* note that is not held leaves the model as it was, and is_pressed(n) is
\* false after release(n).
C10_ReleaseIdempotent ==
    /\ \A n \in Notes : ReleasedTwice(n) => shared = LastCalls(2)[2].pre
    /\ \A n \in Notes :
          (Len(hist) >= 1 /\ LastCalls(1)[1].op = "release" /\ LastCalls(1)[1].note = n)
             => /\ ~is_pressed(shared, n)
                /\ ~is_pressed(LastCalls(1)[1].pre, n) => shared = LastCalls(1)[1].pre

\* release(n) twice on a model that held n and another note
C10_Witness ==
    \E n \in Notes :
        /\ ReleasedTwice(n)
        /\ Contains(LastCalls(2)[1].pre.pressed_notes, n)
        /\ shared.pressed_notes # <<>>

(* ---------------------------------------------------------------------- *)
(* The rendering call                                                      *)
(* ---------------------------------------------------------------------- *)
\* C11: a rendering call that finds the model lock poisoned does not crash
\* (it emits silence and returns, and later calls run).
C11_PoisonedLockRendersSilence == pc # "panicked"

\* the re-takes of a call of n frames when the lock is re-taken once per
\* SNAPSHOT_REFRESH_INTERVAL rendered frames
Retakes(n) == IF n = 0 THEN 0 ELSE (n - 1) \div SNAPSHOT_REFRESH_INTERVAL

\* C12: a rendering call acquires the model lock once at its start and then
\* once per SNAPSHOT_REFRESH_INTERVAL rendered frames, so exactly once for a
\* buffer of at most SNAPSHOT_REFRESH_INTERVAL frames.
C12_OneLockPerInterval ==
    pc = "scope" =>
        /\ acquired = 1 + Retakes(frames)
        /\ frames <= SNAPSHOT_REFRESH_INTERVAL => acquired = 1

Copying == pc \in {"copy0", "copy"}

\* C14: the audio thread holds the model lock exactly while it copies the
\* snapshot, so not at update_eq, next_sample or record_scope, and its next
\* step after acquiring the lock releases it.
C14_LockHeldOnlyWhileCopying ==
    /\ [](lock = "audio" <=> Copying)
    /\ [][lock = "audio" => lock' = "none"]_vars

\* the producer holds the model lock while the audio thread is between two
\* samples of a call that has already refreshed its snapshot
C14_Witness ==
    /\ pc = "sample"
    /\ lock = "ui"
    /\ frame >= 1
    /\ acquired >= 2

Lagging(n, k) == since[n] >= k

Caught(n) ==
    /\ is_pressed(shared, n) => HasVoice(voices, n)
    /\ (~is_pressed(shared, n) /\ HasVoice(voices, n))
          => VoiceOf(voices, n).stage = "Release"

FreshSnapshot ==
    pc = "sample" =>
        /\ snap_at >= 0
        /\ frame - snap_at <= SNAPSHOT_REFRESH_INTERVAL

\* C13 as stated: every frame is rendered from a snapshot taken in the same
\* call at most SNAPSHOT_REFRESH_INTERVAL frames earlier; a note pressed and
\* held has a voice, and a released note's voice is in Release, once
\* SNAPSHOT_REFRESH_INTERVAL further frames have been rendered.
C13_LagAtMostInterval ==
    /\ FreshSnapshot
    /\ \A n \in Notes : Lagging(n, SNAPSHOT_REFRESH_INTERVAL) => Caught(n)

\* C13 as amended: the same, once SNAPSHOT_REFRESH_INTERVAL + 1 further
\* frames have been rendered.
C13_LagAtMostIntervalPlusOne ==
    /\ FreshSnapshot
    /\ \A n \in Notes : Lagging(n, SNAPSHOT_REFRESH_INTERVAL + 1) => Caught(n)

\* a held note whose voice was created by the frame that was the
\* (SNAPSHOT_REFRESH_INTERVAL + 1)-th since the press
C13_Witness ==
    \E n \in Notes :
        /\ since[n] = SNAPSHOT_REFRESH_INTERVAL + 1
        /\ is_pressed(shared, n)
        /\ HasVoice(voices, n)
        /\ VoiceOf(voices, n).stage = "Attack"
        /\ VoiceOf(voices, n).env_level = attack_step(snapshot.params, SampleRate)

(* ---------------------------------------------------------------------- *)
(* The visualization ring buffer                                           *)
(* ---------------------------------------------------------------------- *)
\* ScopeBuffer::new(capacity) for any capacity
InitAnyScope ==
    /\ \E capacity \in 0..MaxCap : scope = ScopeBuffer_new(capacity)
    /\ recorded = <<>>

\* buffer.record(block)
Record_block(block) ==
    /\ Len(recorded) + Len(block) <= MaxRecorded
    /\ scope' = ScopeBuffer_record(scope, block)
    /\ recorded' = recorded \o block

NextScope ==
    \E block \in Blocks : Record_block(block) /\ UNCHANGED <<engvars, voicevars, rendervars, eqvars, appvars>>

InitScopeOfAnyCapacity ==
    /\ InitEngine
    /\ InitVoice
    /\ InitAnyScope
    /\ InitRender
    /\ InitEq
    /\ InitApp

SpecScope == InitScopeOfAnyCapacity /\ [][NextScope]_vars

Min(a, b) == IF a < b THEN a ELSE b

\* the last n elements of a sequence
LastOf(seq, n) == SubSeq(seq, Len(seq) - n + 1, Len(seq))

\* C17: for any capacity and any sequence of record calls the buffer holds
\* at most capacity samples, and snapshot() returns the most recent
\* min(capacity, number recorded) samples, oldest first.
C17_ScopeKeepsLatest ==
    /\ Len(scope.samples) <= scope.capacity
    /\ ScopeBuffer_snapshot(scope)
          = LastOf(recorded, Min(scope.capacity, Len(recorded)))

(* ---------------------------------------------------------------------- *)
(* One voice: attack length, instantaneous stages, stage edges             *)
(* ---------------------------------------------------------------------- *)
\* attack_seconds * sample_rate, in units of 1/One
AttackSamples(r) == FMul(r.attack_seconds, SampleRate)

\* the level after k samples of Attack from 0: k additions of the step
RECURSIVE RampSum(_, _)
RampSum(k, step) == IF k = 0 THEN 0 ELSE FAdd(RampSum(k - 1, step), step)

Followed == ramp.live /\ ramp.ticks < MaxRamp

\* C16 as stated: a fresh voice rises by 1 / (attack_seconds * sample_rate)
\* per sample and leaves Attack for Decay, at level 1.0, on sample
\* attack_seconds * sample_rate.
C16_AttackLengthExact ==
    Followed =>
        /\ voice.stage = "Attack" =>
               voice.env_level * AttackSamples(ramp) = ramp.ticks * One * One
        /\ voice.stage = "Decay" =>
               /\ voice.env_level = One
               /\ ramp.ticks * One = AttackSamples(ramp)

\* C16 as amended: the level of a fresh voice after k samples of Attack is
\* the sum of k steps of 1 / (attack_seconds * sample_rate) (one step of 1.0
\* when attack_seconds <= 0), and the voice leaves Attack for Decay, at level
\* 1.0, on the first sample at which that sum reaches 1.0: on sample
\* attack_seconds * sample_rate when that is a whole number of samples whose
\* reciprocal is exact, and on sample 1 when it is at most one sample.
C16_AttackRamp ==
    Followed =>
        LET step == env_step(ramp.attack_seconds, SampleRate)
            k == ramp.ticks
            n == AttackSamples(ramp)
        IN /\ voice.stage \in {"Attack", "Decay"}
           /\ voice.stage = "Attack" =>
                  /\ voice.env_level = RampSum(k, step)
                  /\ FLt(voice.env_level, One)
           /\ voice.stage = "Decay" =>
                  /\ voice.env_level = One
                  /\ FGe(RampSum(k, step), One)
                  /\ k = 1 \/ FLt(RampSum(k - 1, step), One)
                  /\ (n > 0 /\ n % One = 0 /\ (One * One) % n = 0) => k * One = n
                  /\ n <= One => k = 1

\* a fresh voice with a two-sample attack has risen by 1/2 per sample and is
\* in Decay at level 1.0 after its second sample
C16_Witness ==
    /\ Followed
    /\ ramp.attack_seconds = 2 * One
    /\ ramp.ticks = 2
    /\ voice.stage = "Decay"
    /\ voice.env_level = One

\* C18: with attack_seconds <= 0 a voice entering Attack is at level 1.0
\* after one sample; with decay_seconds <= 0 a voice entering Decay is in
\* Sustain at the sustain target after one sample; with release_seconds <= 0
\* a voice entering Release is in Idle at level 0 after one sample.
C18_NonPositiveTimeIsInstant ==
    [][LET gate == voice'.gate
           params == vparams'
           sv == set_gate(voice, gate)
           nv == voice_next_sample(sv, params, SampleRate)
       IN VoiceSample(gate, params) =>
                /\ (voice.stage # "Attack" /\ sv.stage = "Attack"
                       /\ params.attack_seconds <= 0)
                    => nv.env_level = One
                /\ (voice.stage = "Decay" /\ voice.env_level = One
                       /\ sv.stage = "Decay" /\ params.decay_seconds <= 0)
                    => (nv.stage = "Sustain" /\ nv.env_level = sustain_target(params))
                /\ (voice.stage # "Release" /\ sv.stage = "Release"
                       /\ params.release_seconds <= 0)
                    => (nv.stage = "Idle" /\ nv.env_level = 0)]_vars

GateEdge(v, sv, gate) ==
    \/ sv.stage = v.stage
    \/ gate /\ v.stage \in {"Idle", "Release"} /\ sv.stage = "Attack"
    \/ ~gate /\ v.stage \in {"Attack", "Decay", "Sustain"} /\ sv.stage = "Release"

EnvelopeEdge(sv, nv, params) ==
    \/ nv.stage = sv.stage
    \/ sv.stage = "Attack" /\ nv.stage = "Decay" /\ nv.env_level = One
    \/ sv.stage = "Decay" /\ nv.stage = "Sustain" /\ nv.env_level = sustain_target(params)
    \/ sv.stage = "Release" /\ nv.stage = "Idle" /\ nv.env_level = 0

\* C20: set_gate changes the stage only from Idle or Release to Attack
\* (gate-on) and from Attack, Decay or Sustain to Release (gate-off);
\* advance_envelope changes it only from Attack to Decay (level at 1.0), from
\* Decay to Sustain (level at the sustain target) and from Release to Idle
\* (level at 0).
C20_StageEdges ==
    [][LET gate == voice'.gate
           params == vparams'
           sv == set_gate(voice, gate)
           nv == voice_next_sample(sv, params, SampleRate)
       IN VoiceSample(gate, params) =>
             GateEdge(voice, sv, gate) /\ EnvelopeEdge(sv, nv, params)]_vars

\* a voice that went through Attack, was released and is part-way down
\* its release
C20_Witness ==
    /\ voice.stage = "Release"
    /\ ~voice.gate
    /\ voice.env_level = One \div 2

(* ---------------------------------------------------------------------- *)
(* The EQ chain                                                            *)
(* ---------------------------------------------------------------------- *)
Bands == {"low", "mid", "high"}

Mem(e) == [b \in Bands |-> <<e[b].z1, e[b].z2>>]

CoeffsOf(e) == [b \in Bands |-> e[b].coeffs]

ZeroMem == [b \in Bands |-> <<0, 0>>]

\* C15: update_eq replaces only the coefficient sets of the three bands: a
\* step that changes the EQ settings or a coefficient set leaves every
\* band's z1 and z2 and the whole voice pool as they were, and the memory
\* cells are zero from construction until the first sample is processed.
C15_UpdateKeepsMemory ==
    /\ [](fed = 0 => Mem(eq) = ZeroMem)
    /\ [][(eqset' # eqset \/ CoeffsOf(eq') # CoeffsOf(eq))
            => /\ Mem(eq') = Mem(eq)
               /\ voices' = voices]_vars

\* the coefficients were replaced after a sample left the memory nonzero,
\* with a voice sounding
C15_Witness ==
    /\ fed > 0
    /\ io.eqset # eqset
    /\ CoeffsOf(eq) # CoeffsOf(EqChain_update(eq, io.eqset))
    /\ Mem(eq)["low"] # <<0, 0>>
    /\ Mem(eq)["mid"] # <<0, 0>>
    /\ voices # <<>>

PassThrough(c) == c.b1 = c.a1 /\ c.b2 = c.a2

\* C19 as stated: with all three gains at 0 dB since construction every
\* band has b0 = 1, b1 = a1, b2 = a2, the memory cells are 0 and the
\* chain's output equals its input.
C19_FlatIsIdentity ==
    flat =>
        /\ \A b \in Bands : eq[b].coeffs.b0 = One /\ PassThrough(eq[b].coeffs)
        /\ Mem(eq) = ZeroMem
        /\ io.y = io.x

\* the largest value of the format below 1.0
BelowOne == One - Ulp(One - 1)

\* C19 amended: with all three gains at 0 dB since construction every band
\* has b1 = a1 and b2 = a2, and b0 is 1 or the next value below 1; while b0
\* has been 1 in every band the memory cells are 0 and the chain's output
\* equals its input.
C19_FlatIsIdentityWhenUnit ==
    flat =>
        /\ \A b \in Bands :
              /\ eq[b].coeffs.b0 \in {BelowOne, One}
              /\ PassThrough(eq[b].coeffs)
        /\ unit => Mem(eq) = ZeroMem /\ io.y = io.x

\* a nonzero sample went through three 0 dB bands with b0 = 1 whose
\* feedback coefficients are not zero
C19_Witness ==
    /\ flat
    /\ unit
    /\ fed > 0
    /\ io.eqset = eqset
    /\ io.x # 0
    /\ \A b \in Bands : eq[b].coeffs.a1 # 0 /\ eq[b].coeffs.a2 # 0

(* ---------------------------------------------------------------------- *)
(* The voice pool against the held notes                                   *)
(* ---------------------------------------------------------------------- *)
\* C21: when the snapshot holds a note whose voice is in Release, the
\* synchronization step of next_sample turns that same voice to Attack with
\* its gate on and its level untouched, and creates no second voice for the
\* note; the sample then adds the attack step to the level the voice had in
\* Release (ending the attack if that reaches 1).
C21_RepressRegatesSameVoice ==
    [][NextSample =>
        LET sv == sync_voices(voices, snapshot.pressed_notes)
        IN \A n \in Notes :
              (/\ HasVoice(voices, n)
               /\ VoiceOf(voices, n).stage = "Release"
               /\ Contains(snapshot.pressed_notes, n)) =>
                 LET v == VoiceOf(voices, n)
                     lvl == FAdd(v.env_level, attack_step(snapshot.params, SampleRate))
                 IN /\ Cardinality(VoicesOfNote(sv, n)) = 1
                    /\ VoiceOf(sv, n) = [v EXCEPT !.stage = "Attack", !.gate = TRUE]
                    /\ Cardinality(VoicesOfNote(voices', n)) = 1
                    /\ VoiceOf(voices', n).gate
                    /\ IF FGe(lvl, One)
                       THEN /\ VoiceOf(voices', n).stage = "Decay"
                            /\ VoiceOf(voices', n).env_level = One
                       ELSE /\ VoiceOf(voices', n).stage = "Attack"
                            /\ VoiceOf(voices', n).env_level = lvl]_vars

\* a held note's only voice is in Attack above the first attack step and
\* below 1 under the start parameters; with the attack times of TailParams
\* a voice starting from 0 is never there, so this one was taken up again
\* in its release tail
C21_Witness ==
    \E n \in Notes :
        /\ snapshot.params = StartParams
        /\ Contains(snapshot.pressed_notes, n)
        /\ Cardinality(VoicesOfNote(voices, n)) = 1
        /\ VoiceOf(voices, n).stage = "Attack"
        /\ VoiceOf(voices, n).gate
        /\ VoiceOf(voices, n).env_level > attack_step(StartParams, SampleRate)
        /\ VoiceOf(voices, n).env_level < One

\* C22: when next_sample returns, every voice of the pool has its gate on
\* exactly if its note is in the held-note list of the snapshot it was given,
\* and every note of that list has a voice in the pool.
C22_GatedVoicesAreHeldNotes ==
    [][NextSample =>
        /\ \A i \in 1..Len(voices') :
              voices'[i].gate <=> Contains(snapshot.pressed_notes, voices'[i].note)
        /\ \A n \in Notes :
              Contains(snapshot.pressed_notes, n) => HasVoice(voices', n)]_vars

\* the pool after a sample: the voice of a held note with its gate on
\* beside the voice of a note no longer held, gate off, in its release tail
C22_Witness ==
    \E i, j \in 1..Len(voices) :
        /\ voices[i].gate
        /\ Contains(snapshot.pressed_notes, voices[i].note)
        /\ voices[i].stage = "Decay"
        /\ ~voices[j].gate
        /\ ~Contains(snapshot.pressed_notes, voices[j].note)
        /\ voices[j].stage = "Release"

GateMatchesStage(v) ==
    /\ v.gate <=> v.stage \in {"Attack", "Decay", "Sustain"}
    /\ ~v.gate <=> v.stage \in {"Idle", "Release"}

\* C26: every voice has its gate on exactly in Attack, Decay and Sustain and
\* off exactly in Idle and Release, in the pool as next_sample leaves it,
\* after the synchronization step and after the envelope advance of the
\* next call; no voice in Idle is in the pool when next_sample has returned.
C26_GateMatchesStage ==
    LET sv == sync_voices(voices, snapshot.pressed_notes)
        mv == mix_voices(sv, snapshot.params, SampleRate)
    IN /\ \A i \in 1..Len(voices) :
             GateMatchesStage(voices[i]) /\ voices[i].stage # "Idle"
       /\ \A i \in 1..Len(sv) : GateMatchesStage(sv[i]) /\ GateMatchesStage(mv[i])
       /\ \A n \in Notes : GateMatchesStage(VoiceState_new(n))

\* a pool with a voice on its way up and another in its release tail
C26_Witness ==
    /\ Len(voices) = 2
    /\ \E i, j \in 1..Len(voices) :
          /\ voices[i].stage = "Attack"
          /\ voices[i].gate
          /\ voices[j].stage = "Release"
          /\ ~voices[j].gate
          /\ voices[j].env_level > 0

(* ---------------------------------------------------------------------- *)
(* Release tails run to their end                                          *)
(* ---------------------------------------------------------------------- *)
\* a release time whose product with the sample rate is beyond the largest
\* finite f32
EndlessRelease == MkParams(2 * One, 2 * One, One \div 2, PosInf)

LiveParams == {StartParams, ZeroTimes, NegativeTimes, EndlessRelease}

NextLive ==
    \/ \E note \in Notes : PressNote(note) /\ UNCHANGED <<tail, hist, taken, others>>
    \/ \E note \in Notes : ReleaseNote(note) /\ UNCHANGED <<tail, hist, taken, others>>
    \/ \E params \in LiveParams : WriteParams(params) /\ UNCHANGED <<tail, hist, taken, others>>
    \/ TakeSnapshot /\ UNCHANGED <<tail, hist, taken, others>>
    \/ NextSample /\ UNCHANGED <<tail, hist, taken, others>>

\* the audio callback keeps being called: a sample that changes the pool is
\* eventually rendered
SpecLive ==
    /\ Init
    /\ [][NextLive]_vars
    /\ WF_vars(NextSample /\ UNCHANGED <<tail, hist, taken, others>>)

\* C25: a voice whose note is not in the snapshot's held-note list is
\* eventually removed from the pool, unless the note gets held again; so
\* with no note held the pool becomes empty.
C25_VoicesRunToCompletion ==
    \A n \in Notes :
        (HasVoice(voices, n) /\ ~Contains(snapshot.pressed_notes, n))
            ~> (~HasVoice(voices, n) \/ Contains(snapshot.pressed_notes, n))

(* ---------------------------------------------------------------------- *)
(* The coefficients follow the snapshot                                    *)
(* ---------------------------------------------------------------------- *)
\* C23: every frame is rendered with EQ coefficients computed from the
\* parameters of the snapshot that drives its voices: whenever the call is
\* about to render a frame, the last update_eq was given the current
\* snapshot's parameters, and each refresh is followed by update_eq before
\* the next frame.
C23_EqFollowsSnapshot ==
    /\ pc = "sample" => eq_from = snapshot.params
    /\ pc \in {"eq0", "eq"} => snap_at = frame
    /\ pc = "sample" /\ refresh_due(frame) => snap_at = frame

\* a refresh inside the loop picked up new parameters and the coefficients
\* were recomputed from them before the frame
C23_Witness ==
    /\ pc = "sample"
    /\ frame >= SNAPSHOT_REFRESH_INTERVAL
    /\ snap_at = frame
    /\ snapshot.params = ZeroTimes
    /\ eq_from = ZeroTimes
    /\ shared.params = StartParams
(* ---------------------------------------------------------------------- *)
(* The two mutexes: the model and the visualization buffer                 *)
(* ---------------------------------------------------------------------- *)
\* the block handed to record_scope: one sample per frame of the call (the
\* sample values are not followed here)
scope_block(n) == [i \in 1..n |-> 0]

\* faulty variant: the scope is drawn before the model is locked
UiScopeLock_before_model ==
    /\ lock = "none"
    /\ slock = "none"
    /\ ~spoisoned
    /\ slock' = "ui"
    /\ UNCHANGED <<spoisoned, srec>>

\* producer thread, in draw_scope: scope.lock() blocks while the audio
\* thread holds the mutex; Err (poisoned) draws "Scope busy..." instead
UiScopeLock ==
    /\ lock = "ui"
    /\ slock = "none"
    /\ ~spoisoned
    /\ slock' = "ui"
    /\ UNCHANGED <<spoisoned, srec>>

\* producer thread: buffer.snapshot() is drawn and the guard goes out of
\* scope at the end of the match arm
UiScopeUnlock ==
    /\ slock = "ui"
    /\ slock' = "none"
    /\ UNCHANGED <<spoisoned, srec>>

\* a panic of the producer unwinds through every guard it holds
scope_after_panic ==
    /\ slock' = IF slock = "ui" THEN "none" ELSE slock
    /\ spoisoned' = (spoisoned \/ slock = "ui")
    /\ UNCHANGED srec

\* faulty variant: try_lock, a held mutex is skipped like a poisoned one
LockScope_try ==
    /\ pc = "scope"
    /\ IF slock = "none" /\ ~spoisoned
       THEN /\ pc' = "record"
            /\ slock' = "audio"
            /\ UNCHANGED srec
       ELSE /\ pc' = "idle"
            /\ srec' = "skipped"
            /\ UNCHANGED slock
    /\ UNCHANGED <<engvars, scopevars, frames, frame, lock, poisoned, acquired, snap_at, eq_from, spoisoned>>

\* record_scope: if let Ok(mut buffer) = scope.lock() -- blocks while the
\* producer holds the mutex; a poisoned mutex is skipped and the call returns
LockScope ==
    /\ pc = "scope"
    /\ slock = "none"
    /\ IF spoisoned
       THEN /\ pc' = "idle"
            /\ srec' = "skipped"
            /\ UNCHANGED slock
       ELSE /\ pc' = "record"
            /\ slock' = "audio"
            /\ UNCHANGED srec
    /\ UNCHANGED <<engvars, scopevars, frames, frame, lock, poisoned, acquired, snap_at, eq_from, spoisoned>>

\* buffer.record(block); the guard is dropped and the call returns
RecordBlock ==
    /\ pc = "record"
    /\ scope' = ScopeBuffer_record(scope, scope_block(frames))
    /\ slock' = "none"
    /\ srec' = "recorded"
    /\ pc' = "idle"
    /\ UNCHANGED <<engvars, recorded, frames, frame, lock, poisoned, acquired, snap_at, eq_from, spoisoned>>

\* the steps of the audio thread inside a rendering call
AudioStep ==
    \/ AcquireModel /\ UNCHANGED <<voicevars, scopevars, eqvars, since, appvars>>
    \/ CopySnapshot /\ UNCHANGED <<voicevars, scopevars, eqvars, since, appvars>>
    \/ UpdateEq /\ UNCHANGED <<voicevars, scopevars, eqvars, since, appvars>>
    \/ RenderFrame /\ UNCHANGED <<voicevars, scopevars, eqvars, since, appvars>>
    \/ LockScope /\ UNCHANGED <<voicevars, eqvars, since, keyvars, setvars, watchvars>>
    \/ RecordBlock /\ UNCHANGED <<voicevars, eqvars, since, keyvars, setvars, watchvars>>

\* the steps of the producer thread inside a frame of the UI
UiStep ==
    \/ UiPress(0) /\ UNCHANGED <<voicevars, scopevars, eqvars, since, appvars>>
    \/ UiRelease(0) /\ UNCHANGED <<voicevars, scopevars, eqvars, since, appvars>>
    \/ UiScopeLock /\ UNCHANGED <<engvars, voicevars, scopevars, rendervars, eqvars, keyvars, setvars, watchvars>>
    \/ UiScopeUnlock /\ UNCHANGED <<engvars, voicevars, scopevars, rendervars, eqvars, keyvars, setvars, watchvars>>
    \/ slock # "ui" /\ UiUnlock /\ UNCHANGED <<voicevars, scopevars, eqvars, since, appvars>>
    \/ UiPanic /\ scope_after_panic /\ UNCHANGED <<voicevars, scopevars, eqvars, since, keyvars, setvars, watchvars>>

NextLocks ==
    \/ UiLock /\ UNCHANGED <<voicevars, scopevars, eqvars, since, appvars>>
    \/ UiStep
    \/ \E n \in 0..MaxFrames :
          /\ BeginCall(n)
          /\ srec' = "none"
          /\ UNCHANGED <<voicevars, scopevars, eqvars, since, slock, spoisoned, keyvars, setvars, watchvars>>
    \/ AudioStep

SpecLocks == Init /\ [][NextLocks]_vars

\* C24: when the visualization buffer's mutex is held by the producer or
\* poisoned, the rendering call does not wait at record_scope: its next step
\* can be taken at once, it returns without recording, and the output
\* buffer has been written in full by then.
C24_ScopeLockNeverWaits ==
    /\ (pc = "scope" /\ (slock = "ui" \/ spoisoned)) => ENABLED AudioStep
    /\ pc = "scope" => frame = frames
    /\ (pc = "idle" /\ srec = "skipped") => frame = frames
\* the audio thread is inside lock() on a mutex the producer holds
AudioWaitsModel == pc \in {"lock0", "lock"} /\ lock = "ui"

AudioWaitsScope == pc = "scope" /\ slock = "ui"

\* C27: the two threads never deadlock on the model mutex and the scope
\* mutex.  The audio thread never holds both, the producer holds the scope
\* mutex only inside its hold of the model mutex, the audio thread never
\* waits for one mutex while it holds the other, and whenever the audio
\* thread waits the producer can release what it holds without taking
\* anything more.
C27_NoDeadlock ==
    /\ ~(lock = "audio" /\ slock = "audio")
    /\ slock = "ui" => lock = "ui"
    /\ AudioWaitsModel => slock # "audio"
    /\ AudioWaitsScope => lock # "audio"
    /\ AudioWaitsScope =>
          ENABLED (UiScopeUnlock /\ UNCHANGED <<engvars, voicevars, scopevars, rendervars, eqvars, keyvars, setvars, watchvars>>)
    /\ (AudioWaitsModel /\ slock # "ui") =>
          ENABLED (UiUnlock /\ UNCHANGED <<voicevars, scopevars, eqvars, since, appvars>>)

\* the audio thread waits at record_scope while the producer draws the scope
C27_Witness ==
    /\ AudioWaitsScope
    /\ lock = "ui"
    /\ frames > 0
    /\ frame = frames
(* ---------------------------------------------------------------------- *)
(* The computer keyboard (handle_keyboard_events)                          *)
(* ---------------------------------------------------------------------- *)
\* i32::clamp
clamp(x, lo, hi) == IF x < lo THEN lo ELSE IF x > hi THEN hi ELSE x

\* faulty variant: the octave shift is left out of the mapping
map_key_to_note_unshifted(key, offset) ==
    LET span == HIGHEST_NOTE - LOWEST_NOTE + 1
    IN LOWEST_NOTE + (key % span)

map_key_to_note(key, offset) ==
    LET span == HIGHEST_NOTE - LOWEST_NOTE + 1
        note == LOWEST_NOTE + (key % span)
        shift == offset * 12
    IN clamp(note + shift, LOWEST_NOTE, HIGHEST_NOTE)

\* the loop body of handle_keyboard_events for one event (key, pressed); the
\* keyboard sends key-down for a key that is up and key-up for one that is down
KeyEvent(key, pressed) ==
    /\ pressed = (down[key] = NoNote)
    /\ IF key = ArrowLeft /\ pressed
       THEN /\ octave_offset' = clamp(octave_offset - 1, 0 - 2, 2)
            /\ down' = [down EXCEPT ![key] = ArrowShift]
            /\ UNCHANGED shared
       ELSE IF key = ArrowRight /\ pressed
       THEN /\ octave_offset' = clamp(octave_offset + 1, 0 - 2, 2)
            /\ down' = [down EXCEPT ![key] = ArrowShift]
            /\ UNCHANGED shared
       ELSE LET note == map_key_to_note(key, octave_offset)
            IN /\ shared' = IF pressed THEN press_note(shared, note)
                            ELSE release_note(shared, note)
               /\ down' = [down EXCEPT ![key] = IF pressed THEN note ELSE NoNote]
               /\ UNCHANGED octave_offset
    /\ UNCHANGED <<snapshot, voices, tail, hist, taken>>

NextKeys ==
    \/ \E key \in Keys :
          KeyEvent(key, TRUE) /\ UNCHANGED <<voicevars, scopevars, rendervars, eqvars, lockvars, setvars, watchvars>>
    \/ \E key \in Keys :
          KeyEvent(key, FALSE) /\ UNCHANGED <<voicevars, scopevars, rendervars, eqvars, lockvars, setvars, watchvars>>

SpecKeys == Init /\ [][NextKeys]_vars

\* C29: a key's key-up removes from the held set the note its key-down
\* added, whatever octave shifts were handled in between, and with every
\* key up no note is held.
C29_KeyUpReleases ==
    /\ [](((\A k \in Keys : down[k] = NoNote)) => shared.pressed_notes = <<>>)
    /\ [][\A k \in NoteKeys :
            (down[k] # NoNote /\ down'[k] = NoNote)
                => ~Contains(shared'.pressed_notes, down[k])]_vars
(* ---------------------------------------------------------------------- *)
(* Saving and loading the settings                                         *)
(* ---------------------------------------------------------------------- *)
InitAnySettings ==
    /\ InitEngine
    /\ InitVoice
    /\ InitScope
    /\ InitRender
    /\ InitEq
    /\ slock = "none"
    /\ spoisoned = FALSE
    /\ srec = "none"
    /\ octave_offset = 0
    /\ down = [k \in Keys |-> NoNote]
    /\ watch = "off"
    /\ blipped = FALSE
    /\ settings \in SettingsChoices
    /\ file = <<>>
    /\ loaded = [valid |-> FALSE, settings |-> AppSettings_default]

\* self.settings.save(&self.settings_path)
Save ==
    /\ file' = save(settings)
    /\ UNCHANGED <<settings, loaded>>

\* AppSettings::load(&path) at the next start
Load ==
    /\ file # <<>>
    /\ loaded' = [valid |-> TRUE, settings |-> load(file)]
    /\ UNCHANGED <<settings, file>>

NextSettings ==
    \/ Save /\ UNCHANGED <<engvars, voicevars, scopevars, rendervars, eqvars, lockvars, keyvars, watchvars>>
    \/ Load /\ UNCHANGED <<engvars, voicevars, scopevars, rendervars, eqvars, lockvars, keyvars, watchvars>>

SpecSettings == InitAnySettings /\ [][NextSettings]_vars

\* the fields of the round trip other than the instrument
SameButInstrument(a, b) ==
    /\ a.theme = b.theme
    /\ a.layout_mode = b.layout_mode
    /\ a.keybinds = b.keybinds
    /\ a.params.gain = b.params.gain
    /\ a.params.attack_seconds = b.params.attack_seconds
    /\ a.params.waveform = b.params.waveform

\* C30: save followed by load of the written file gives settings whose
\* theme, layout mode, keybind scheme and synthesis parameters (numeric
\* fields, waveform, instrument kind) equal the saved ones.
C30_SettingsRoundTrip ==
    (loaded.valid /\ file = save(settings)) =>
        /\ SameButInstrument(loaded.settings, settings)
        /\ loaded.settings.params.instrument = settings.params.instrument

\* what does hold: everything but the instrument comes back
C30_RoundTripButInstrument ==
    (loaded.valid /\ file = save(settings)) => SameButInstrument(loaded.settings, settings)
(* ---------------------------------------------------------------------- *)
(* Presses and releases between two snapshot refreshes                     *)
(* ---------------------------------------------------------------------- *)
\* watch after press_note(0) on the model s
watch_after_press(w, s) ==
    IF is_pressed(s, 0) THEN w
    ELSE IF w = "b1" THEN "b2"
    ELSE IF w = "s2" THEN "s3"
    ELSE "off"

\* watch after release_note(0) on the model s
watch_after_release(w, s) ==
    IF ~is_pressed(s, 0) THEN w
    ELSE IF w = "b2" THEN "b3"
    ELSE IF w = "s1" THEN "s2"
    ELSE "off"

\* watch after a refresh that copies the model s beside the pool vs
watch_after_snapshot(w, s, vs) ==
    IF is_pressed(s, 0)
    THEN IF w \in {"s3", "s4"} THEN "s4"
         ELSE IF HasVoice(vs, 0) /\ VoiceOf(vs, 0).gate THEN "s1"
         ELSE "off"
    ELSE IF w \in {"b3", "b4"} THEN "b4"
         ELSE IF ~HasVoice(vs, 0) THEN "b1"
         ELSE "off"

NextWatch ==
    \/ UiLock /\ UNCHANGED <<voicevars, scopevars, eqvars, since, appvars>>
    \/ /\ UiPress(0)
       /\ watch' = watch_after_press(watch, shared)
       /\ UNCHANGED <<voicevars, scopevars, eqvars, since, lockvars, keyvars, setvars, blipped>>
    \/ /\ UiRelease(0)
       /\ watch' = watch_after_release(watch, shared)
       /\ UNCHANGED <<voicevars, scopevars, eqvars, since, lockvars, keyvars, setvars, blipped>>
    \/ UiUnlock /\ UNCHANGED <<voicevars, scopevars, eqvars, since, appvars>>
    \/ \E n \in 0..MaxFrames : BeginCall(n) /\ UNCHANGED <<voicevars, scopevars, eqvars, since, appvars>>
    \/ AcquireModel /\ UNCHANGED <<voicevars, scopevars, eqvars, since, appvars>>
    \/ /\ CopySnapshot
       /\ watch' = watch_after_snapshot(watch, shared, voices)
       /\ UNCHANGED <<voicevars, scopevars, eqvars, since, lockvars, keyvars, setvars, blipped>>
    \/ UpdateEq /\ UNCHANGED <<voicevars, scopevars, eqvars, since, appvars>>
    \/ /\ RenderFrame
       /\ blipped' = (blipped \/ watch = "b4")
       /\ UNCHANGED <<voicevars, scopevars, eqvars, since, lockvars, keyvars, setvars, watch>>
    \/ RecordScope /\ UNCHANGED <<voicevars, scopevars, eqvars, since, appvars>>

SpecWatch == Init /\ [][NextWatch]_vars

\* C28: the engine sees the held set only at the refreshes.  A note pressed
\* and released between two refreshes has no voice before, between or after
\* them; a note released and pressed again between two refreshes keeps its
\* voice gated, out of Release, and never back in Attack from a later stage.
C28_HeldSetSeenOnlyAtRefresh ==
    /\ [](watch \in {"b1", "b2", "b3", "b4"} => ~HasVoice(voices, 0))
    /\ [](watch \in {"s1", "s2", "s3", "s4"} =>
            /\ HasVoice(voices, 0)
            /\ VoiceOf(voices, 0).gate
            /\ VoiceOf(voices, 0).stage \notin {"Release", "Idle"})
    /\ [][(watch \in {"s1", "s2", "s3", "s4"} /\ watch' = watch
             /\ VoiceOf(voices, 0).stage # "Attack")
                => VoiceOf(voices', 0).stage # "Attack"]_vars
    /\ [][snapshot' # snapshot => pc \in {"copy0", "copy"}]_vars

\* both cases have happened: a frame was rendered after a press/release pair
\* that no refresh saw, and one after a release/press pair that none saw
C28_Witness ==
    /\ blipped
    /\ watch = "s4"
    /\ frame > snap_at
    /\ snap_at >= SNAPSHOT_REFRESH_INTERVAL
    /\ VoiceOf(voices, 0).stage # "Attack"
====
